---- MODULE Spec2Model ----
(***************************************************************************)
(* Weather-data retrieval and caching subsystem of weather_app.py:         *)
(* the retrying HTTP fetcher, the file-backed result cache and the         *)
(* current-weather fetchers that write to it.                              *)
(*                                                                         *)
(* Time is counted in whole seconds (base_delay = 1.0 s), coordinates in   *)
(* thousandths of a degree.                                                *)
(***************************************************************************)
EXTENDS Integers, Sequences, FiniteSets, TLC

---------------------------------------------------------------------------
(* Bounds of the model *)

\* calls of the public fetch functions in one behaviour of Spec
MaxOps == 1
\* direct calls of save_cache_entry in one behaviour of SpecCache
MaxWrites == 12
\* failed writes of the cache file in one behaviour of SpecCache
MaxIoFailures == 1
\* entries of the caches the lookups of SpecFind start from
MaxFindLen == 3
\* pollutants of the components SpecClassify analyzes
MaxComponents == 3
\* in a sequence of fetches, only the first MaxVaried writes of the cache
\* vary in what is fetched and in how the write ends
MaxVaried == 2

---------------------------------------------------------------------------
(* Program constants *)

\* def _make_request_with_retry(..., max_retries: int = 3, ...)
max_retries == 3
\* def _make_request_with_retry(..., base_delay: float = 1.0)
base_delay == 1
\* MAX_CACHE_SIZE = 10
MAX_CACHE_SIZE == 10

\* Python's None for an optional string
None == "None"
\* Python's None for an optional number (no latitude or longitude has it)
NoneNum == 999999

Min(a, b) == IF a <= b THEN a ELSE b

RECURSIVE Pow2(_)
\* 2 ** n
Pow2(n) == IF n = 0 THEN 1 ELSE 2 * Pow2(n - 1)

---------------------------------------------------------------------------
(* The retrying fetcher: pure parts of _make_request_with_retry *)

\* what one requests.get(url, params, timeout=10) can produce: an HTTP
\* status, or an exception of the requests library
StatusCodes == {200, 404, 429, 500, 599}
Exceptions == {"ConnectionError", "Timeout", "TooManyRedirects"}

\* the exception classes that derive from requests.RequestException
IsRequestException(exc) ==
    exc \in {"RequestException", "ConnectionError", "Timeout", "TooManyRedirects"}

IsRetryableStatusEveryError(status) == status = 429 \/ status >= 400
\* response.status_code == 429 or (500 <= response.status_code < 600)
IsRetryableStatus(status) ==
    status = 429 \/ (500 <= status /\ status < 600)

IsCaughtExceptionNoTimeout(exc) == exc = "ConnectionError"
\* except (requests.exceptions.ConnectionError, requests.exceptions.Timeout)
IsCaughtException(exc) == exc \in {"ConnectionError", "Timeout"}

MayRetryOffByOne(att) == att < max_retries
\* if attempt < max_retries - 1
MayRetry(att) == att < max_retries - 1

BackoffDelayShifted(att) == base_delay * Pow2(att + 1)
\* delay = base_delay * (2 ** attempt)
BackoffDelay(att) == base_delay * Pow2(att)

\* for attempt in range(max_retries): the loop goes on while this holds
InRange(att) == att < max_retries

NextAttemptStuck(att) == att
\* for attempt in range(max_retries): the next value of the loop variable
NextAttempt(att) == att + 1

ServerErrorValueError == "ValueError"
\* raise requests.RequestException(f"Ошибка сервера после ...")
ServerError == "RequestException"

\* raise requests.RequestException(f"Сетевая ошибка после ...: {e}")
NetworkError(e) == "RequestException"

---------------------------------------------------------------------------
(* The result cache: pure parts of _load_cache and _save_cache_entry *)

\* cache_entry = {"city", "lat", "lon", "fetched_at", "weather_data"}
cache_entry_swapped(data, city, lat, lon, now) ==
    [city |-> city, lat |-> lon, lon |-> lat,
     fetched_at |-> now, weather_data |-> data]
cache_entry(data, city, lat, lon, now) ==
    [city |-> city, lat |-> lat, lon |-> lon,
     fetched_at |-> now, weather_data |-> data]

\* A weather record as the current-weather endpoint returns it: a payload
\* (rec) and the coordinates of its "coord" member (NoneNum when absent).
WeatherData(rec, clat, clon) == [rec |-> rec, clat |-> clat, clon |-> clon]

NoEntry == cache_entry(WeatherData(0, NoneNum, NoneNum), None, NoneNum, NoneNum, 0)

\* The content of weather_cache.json, by what json.load makes of it:
\*   kind  "missing"      the path does not exist
\*         "unparseable"  json.load raises JSONDecodeError, or the read
\*                        raises IOError
\*         "object"       a JSON object; wd and hc tell whether it has the
\*                        keys "weather_data" and "cache"; self holds its
\*                        entry fields (when wd); cl tells whether the value
\*                        of "cache" is a list, and items is that list
\*         "array"        a JSON array, items
\*         "scalar"       any other JSON value
JsonFile(kind, wd, hc, cl, self, items) ==
    [kind |-> kind, wd |-> wd, hc |-> hc, cl |-> cl, self |-> self, items |-> items]

MissingFile == JsonFile("missing", FALSE, FALSE, FALSE, NoEntry, <<>>)
UnparseableFile == JsonFile("unparseable", FALSE, FALSE, FALSE, NoEntry, <<>>)
ScalarFile == JsonFile("scalar", FALSE, FALSE, FALSE, NoEntry, <<>>)
\* old format: the file is one bare entry
SingleEntryFile(e) == JsonFile("object", TRUE, FALSE, FALSE, e, <<>>)
\* a bare list of entries
BareListFile(list) == JsonFile("array", FALSE, FALSE, FALSE, NoEntry, list)
\* an object with neither key
OtherObjectFile == JsonFile("object", FALSE, FALSE, FALSE, NoEntry, <<>>)
\* {"cache": <not a list>}
BadCacheFile == JsonFile("object", FALSE, TRUE, FALSE, NoEntry, <<>>)

\* json.dump({"cache": cache_list}, f, ...)
Dump(list) == JsonFile("object", FALSE, TRUE, TRUE, NoEntry, list)

\* the value _load_cache returns: a list, or a value that is not a list
Loaded(isList, list) == [isList |-> isList, list |-> list]

load_cache_unparseable_raises(f) ==
    IF f.kind = "missing" THEN Loaded(TRUE, <<>>)
    ELSE IF f.kind = "unparseable" THEN Loaded(FALSE, <<>>)
    ELSE IF f.kind = "object" /\ f.wd THEN Loaded(TRUE, <<f.self>>)
    ELSE IF f.kind = "object" /\ f.hc THEN Loaded(f.cl, f.items)
    ELSE IF f.kind = "array" THEN Loaded(TRUE, f.items)
    ELSE Loaded(TRUE, <<>>)
load_cache_no_legacy(f) ==
    IF f.kind = "object" /\ f.hc THEN Loaded(f.cl, f.items) ELSE Loaded(TRUE, <<>>)
\* def _load_cache() -> list
load_cache(f) ==
    IF f.kind = "missing" THEN Loaded(TRUE, <<>>)
    ELSE IF f.kind = "unparseable" THEN Loaded(TRUE, <<>>)
    ELSE IF f.kind = "object" /\ f.wd THEN Loaded(TRUE, <<f.self>>)
    ELSE IF f.kind = "object" /\ f.hc THEN Loaded(f.cl, f.items)
    ELSE IF f.kind = "array" THEN Loaded(TRUE, f.items)
    ELSE Loaded(TRUE, <<>>)

InsertBack(list, e) == Append(list, e)
\* cache_list.insert(0, cache_entry)
InsertFront(list, e) == <<e>> \o list

TruncateOffByOne(list) ==
    IF Len(list) > MAX_CACHE_SIZE + 1 THEN SubSeq(list, 1, MAX_CACHE_SIZE + 1) ELSE list
\* if len(cache_list) > MAX_CACHE_SIZE: cache_list = cache_list[:MAX_CACHE_SIZE]
Truncate(list) ==
    IF Len(list) > MAX_CACHE_SIZE THEN SubSeq(list, 1, MAX_CACHE_SIZE) ELSE list

\* The outcomes of the write at the end of _save_cache_entry:
\*   "ok"       the file is replaced by the dumped document
\*   "open"     open(..., 'w') raises IOError: the file is left as it was
\*   "partial"  the write raises IOError after open truncated the file
IoOutcomes == {"ok", "open", "partial"}

\* _save_cache_entry as a function of the file it finds: the file it leaves,
\* the exception that escapes it (None when it returns), and whether the
\* document was written, with the list it held.
SaveResult(f, exc, written, list) ==
    [file |-> f, exc |-> exc, written |-> written, list |-> list]

save_cache_entry(f, entry, io) ==
    LET loaded == load_cache(f)
    IN  IF ~loaded.isList
        THEN \* cache_list.insert on a value that is not a list
             SaveResult(f, "AttributeError", FALSE, <<>>)
        ELSE LET cache_list == Truncate(InsertFront(loaded.list, entry))
             IN  IF io = "ok" THEN SaveResult(Dump(cache_list), None, TRUE, cache_list)
                 ELSE IF io = "open" THEN SaveResult(f, None, FALSE, <<>>)
                 ELSE SaveResult(UnparseableFile, None, FALSE, <<>>)

---------------------------------------------------------------------------
(* State *)

VARIABLES
    apiKey,          \* API_KEY is set
    file,            \* the content of weather_cache.json
    clock,           \* datetime.now(): calls of _save_cache_entry so far
    nOps,            \* calls of the public functions so far, where the
                     \* specification bounds them
    nFail,           \* failed writes of the cache file so far
    pc,              \* "idle", "request" (in the retry loop), "fetched"
                     \* (the fetcher has ended), "done" (the call has ended)
    call,            \* the function being called and its arguments
    attempt,         \* the loop variable of _make_request_with_retry
    last_exception,  \* last_exception of _make_request_with_retry
    requests,        \* requests.get calls issued by the current call
    seen,            \* what each requests.get of the fetcher call produced:
                     \* <<status, None>> or <<0, exception>>
    slept,           \* the time.sleep calls of the fetcher call:
                     \* <<attempt, delay>>
    fres,            \* how the fetcher ended
    result,          \* how the call ended
    lastSave,        \* the last call of _save_cache_entry
    history,         \* in a sequence of fetches: the current-weather
                     \* fetches that returned a record, the oldest first
    writers,         \* the calls of _save_cache_entry that run in two
                     \* threads: where each is and its local cache_list
    cli              \* the function of the command-line menu that runs, its
                     \* locals and what it printed last

vars == <<apiKey, file, clock, nOps, nFail, pc, call, attempt, last_exception,
          requests, seen, slept, fres, result, lastSave, history, writers, cli>>

\* the cities and coordinates callers ask for
Cities == {"", "Moscow", "moscow"}
Lats == {55750, 55755}
Lons == {37620}
\* the payloads and "coord" members of the bodies the endpoint answers with
Recs == {1, 2}
BodyCoords == {<<NoneNum, NoneNum>>, <<55750, 37620>>}
WeatherBodies == {WeatherData(r, c[1], c[2]) : r \in Recs, c \in BodyCoords}

\* Geocoding answers: a list of matches <<lat, lon>>, the best match first;
\* a match may lack a coordinate (NoneNum)
GeoBodies ==
    {<<>>, <<<<55750, 37620>>>>, <<<<55750, 37620>>, <<48850, 2350>>>>,
     <<<<48850, 2350>>, <<55750, 37620>>>>, <<<<55750, NoneNum>>, <<48850, 2350>>>>}

\* Forecast answers: hasList tells whether the body has the key "list",
\* list holds its forecast points (here their timestamps), city is the
\* "city" member of the envelope ({} when absent, written None)
ForecastBody(hasList, list, city) == [hasList |-> hasList, list |-> list, city |-> city]
ForecastBodies ==
    {ForecastBody(FALSE, <<>>, "Moscow")}
    \cup {ForecastBody(TRUE, l, c) :
            l \in {<<>>, <<3>>, <<3, 6>>, <<6, 3>>, <<3, 6, 9>>}, c \in {"Moscow", None}}

\* Pollutant concentrations as the API lists them: pairs <<key, value>> in
\* the order of the JSON object
ComponentSets ==
    {<<<<"so2", 15>>>>, <<<<"so2", 15>>, <<"pm10", 120>>>>, <<<<"co", 20000>>>>}
\* a timestep of an air-pollution answer; without the key "components" the
\* function returns {} (written <<>>)
AirBody(hasList, list) == [hasList |-> hasList, list |-> list]
AirBodies ==
    {AirBody(FALSE, <<>>), AirBody(TRUE, <<>>)}
    \cup {AirBody(TRUE, <<c>>) : c \in ComponentSets \cup {<<>>}}
    \cup {AirBody(TRUE, <<c, d>>) : c, d \in ComponentSets}

\* the bodies an endpoint answers 200 with, by the function that calls it
BodiesOf(fn) ==
    IF fn = "get_coordinates" THEN GeoBodies
    ELSE IF fn = "get_forecast_5d3h" THEN ForecastBodies
    ELSE IF fn = "get_air_pollution" THEN AirBodies
    ELSE WeatherBodies

Call(fn, city, lat, lon) ==
    [fn |-> fn, city |-> city, lat |-> lat, lon |-> lon, tolerance |-> NoneNum]
NoCall == Call(None, None, NoneNum, NoneNum)

NoData == WeatherData(0, NoneNum, NoneNum)
\* how a function ends: kind "none" (not yet), "returned", "raised"; msg
\* tells the messages of the ValueErrors apart
Outcome(kind, status, exc, data) ==
    [kind |-> kind, status |-> status, exc |-> exc, data |-> data, msg |-> None]
NoOutcome == Outcome("none", 0, None, NoData)
Response(status, body) == Outcome("returned", status, None, body)
Raised(exc) == Outcome("raised", 0, exc, NoData)
Returned(data) == Outcome("returned", 0, None, data)
\* raise ValueError(<message>)
ValueError(msg) == [Raised("ValueError") EXCEPT !.msg = msg]

\* a call of _save_cache_entry: its entry, whether it wrote the file, and the
\* list it wrote
Save(called, entry, written, list) ==
    [called |-> called, entry |-> entry, written |-> written, list |-> list]
NoSave == Save(FALSE, NoEntry, FALSE, <<>>)

\* a current-weather fetch that returned data: the entry it passed to
\* _save_cache_entry, whether the write of the cache succeeded, and whether
\* the file it left can be parsed
Fetched(entry, written, readable) ==
    [entry |-> entry, written |-> written, readable |-> readable]

\* the main thread of the bot and its notification thread
Threads == {1, 2}
\* a call of _save_cache_entry in a thread: at "start", "loaded" (cache_list
\* is ready to be written), "done" (the file is written), "failed" (the
\* IOError of the write is swallowed), or "raised"
Writer(at, entry, cache_list) == [at |-> at, entry |-> entry, cache_list |-> cache_list]
NoWriter == Writer("start", NoEntry, <<>>)

\* A function of the weather menu: at "menu" (none runs), "calling" (the
\* input is read and the weather function is called), "asked" (the fallback
\* to the cache is offered) or "crashed" (an exception left the function);
\* city, lat and lon are its locals, use_cache the answer to the offer, and
\* shown what it printed last.
Cli(fn, at, city, lat, lon) ==
    [fn |-> fn, at |-> at, city |-> city, lat |-> lat, lon |-> lon,
     use_cache |-> None, shown |-> None]
NoCli == Cli(None, "menu", None, NoneNum, NoneNum)

\* entries written before the behaviour starts: OldEntry(1) is the newest
OldEntry(i) == cache_entry(WeatherData(1, NoneNum, NoneNum), "Paris", NoneNum, NoneNum, 0 - i)
OldList(n) == [i \in 1..n |-> OldEntry(i)]
\* entries of a file written by an older version, which did not cap the list
LegacyEntry(i) == cache_entry(WeatherData(2, NoneNum, NoneNum), "Berlin", NoneNum, NoneNum, 0 - i)
LegacyList(n) == [i \in 1..n |-> LegacyEntry(i)]

\* the files a call may find
InitFiles ==
    {MissingFile, UnparseableFile, ScalarFile, OtherObjectFile, BadCacheFile,
     SingleEntryFile(OldEntry(1)), BareListFile(LegacyList(MAX_CACHE_SIZE + 2)),
     Dump(<<>>), Dump(OldList(MAX_CACHE_SIZE - 1)), Dump(LegacyList(MAX_CACHE_SIZE + 2))}

InitRest ==
    /\ clock = 0
    /\ nOps = 0
    /\ nFail = 0
    /\ pc = "idle"
    /\ call = NoCall
    /\ attempt = 0
    /\ last_exception = None
    /\ requests = 0
    /\ seen = <<>>
    /\ slept = <<>>
    /\ fres = NoOutcome
    /\ result = NoOutcome
    /\ lastSave = NoSave
    /\ history = <<>>
    /\ writers = [t \in Threads |-> NoWriter]
    /\ cli = NoCli

Init ==
    /\ apiKey \in BOOLEAN
    /\ file \in InitFiles
    /\ InitRest

---------------------------------------------------------------------------
(* _make_request_with_retry *)

\* The head of the for loop with the loop variable at att: the body runs
\* while the range lasts; past it the function raises last_exception, or a
\* RequestException when there is none.
EnterIteration(att) ==
    /\ attempt' = att
    /\ IF InRange(att)
       THEN /\ pc' = "request"
            /\ fres' = NoOutcome
       ELSE /\ pc' = "fetched"
            /\ fres' = Raised(IF last_exception' # None THEN last_exception'
                              ELSE "RequestException")

\* the fetcher starts: last_exception = None, first iteration
StartFetch ==
    /\ last_exception' = None
    /\ requests' = 0
    /\ seen' = <<>>
    /\ slept' = <<>>
    /\ EnterIteration(0)

FetchFrame ==
    UNCHANGED <<apiKey, file, clock, nOps, nFail, call, result, lastSave, history,
                writers, cli>>

\* requests.get answers 200: return response
AttemptOk ==
    /\ pc = "request"
    /\ \E body \in BodiesOf(call.fn) :
        /\ requests' = requests + 1
        /\ seen' = Append(seen, <<200, None>>)
        /\ fres' = Response(200, body)
        /\ pc' = "fetched"
    /\ UNCHANGED <<attempt, last_exception, slept>>
    /\ FetchFrame

\* requests.get answers 429 or 5xx: sleep and continue, or raise on the
\* last attempt
AttemptRetryableStatus ==
    /\ pc = "request"
    /\ \E status \in StatusCodes :
        /\ status # 200
        /\ IsRetryableStatus(status)
        /\ requests' = requests + 1
        /\ seen' = Append(seen, <<status, None>>)
        /\ UNCHANGED last_exception
        /\ IF MayRetry(attempt)
           THEN /\ slept' = Append(slept, <<attempt, BackoffDelay(attempt)>>)
                /\ EnterIteration(NextAttempt(attempt))
           ELSE /\ fres' = Raised(ServerError)
                /\ pc' = "fetched"
                /\ UNCHANGED <<attempt, slept>>
    /\ FetchFrame

\* requests.get answers any other status: return response
AttemptOtherStatus ==
    /\ pc = "request"
    /\ \E status \in StatusCodes :
        /\ status # 200
        /\ ~IsRetryableStatus(status)
        /\ requests' = requests + 1
        /\ seen' = Append(seen, <<status, None>>)
        /\ fres' = Response(status, NoData)
        /\ pc' = "fetched"
    /\ UNCHANGED <<attempt, last_exception, slept>>
    /\ FetchFrame

\* requests.get raises ConnectionError or Timeout: sleep and go on with the
\* next iteration, or raise on the last attempt
AttemptCaughtException ==
    /\ pc = "request"
    /\ \E e \in Exceptions :
        /\ IsCaughtException(e)
        /\ requests' = requests + 1
        /\ seen' = Append(seen, <<0, e>>)
        /\ last_exception' = e
        /\ IF MayRetry(attempt)
           THEN /\ slept' = Append(slept, <<attempt, BackoffDelay(attempt)>>)
                /\ EnterIteration(NextAttempt(attempt))
           ELSE /\ fres' = Raised(NetworkError(e))
                /\ pc' = "fetched"
                /\ UNCHANGED <<attempt, slept>>
    /\ FetchFrame

\* requests.get raises an exception the except clause does not name: it
\* leaves the function
AttemptOtherException ==
    /\ pc = "request"
    /\ \E e \in Exceptions :
        /\ ~IsCaughtException(e)
        /\ requests' = requests + 1
        /\ seen' = Append(seen, <<0, e>>)
        /\ fres' = Raised(e)
        /\ pc' = "fetched"
    /\ UNCHANGED <<attempt, last_exception, slept>>
    /\ FetchFrame

FetcherStep ==
    \/ AttemptOk
    \/ AttemptRetryableStatus
    \/ AttemptOtherStatus
    \/ AttemptCaughtException
    \/ AttemptOtherException

---------------------------------------------------------------------------
(* get_weather_by_coordinates, get_weather_by_city, _save_cache_entry *)

IsEmptyNever(city) == FALSE
\* if not city
IsEmpty(city) == city = ""

\* a call that ends before the fetcher is called issues no request
NoFetch ==
    /\ attempt' = 0
    /\ last_exception' = None
    /\ requests' = 0
    /\ seen' = <<>>
    /\ slept' = <<>>
    /\ fres' = NoOutcome

\* a call ends by raising the exception of outcome
Fail(outcome) ==
    /\ result' = outcome
    /\ pc' = "done"

ReraiseAsValueError(exc) == Raised("ValueError")
\* except requests.RequestException as e: raise requests.RequestException(...)
\* wraps what the fetcher raised; any other exception passes through
Reraise(exc) == Raised(IF IsRequestException(exc) THEN "RequestException" ELSE exc)

\* once the fetcher has ended and the caller has used its result, the
\* locals of the fetcher are gone; requests stays, it counts for the call
DropFetch ==
    /\ attempt' = 0
    /\ last_exception' = None
    /\ seen' = <<>>
    /\ slept' = <<>>
    /\ fres' = NoOutcome
    /\ UNCHANGED requests

\* get_weather_by_coordinates(lat, lon) up to the call of the fetcher
GetWeatherByCoordinatesCall ==
    /\ pc \in {"idle", "done"}
    /\ nOps < MaxOps
    /\ \E lat \in Lats, lon \in Lons :
        call' = Call("get_weather_by_coordinates", None, lat, lon)
    /\ nOps' = nOps + 1
    /\ lastSave' = NoSave
    /\ IF ~apiKey
       THEN Fail(ValueError("no_api_key")) /\ NoFetch
       ELSE result' = NoOutcome /\ StartFetch
    /\ UNCHANGED <<apiKey, file, clock, nFail, history, writers, cli>>

\* get_weather_by_city(city) up to the call of the fetcher
GetWeatherByCityCall ==
    /\ pc \in {"idle", "done"}
    /\ nOps < MaxOps
    /\ \E city \in Cities :
        call' = Call("get_weather_by_city", city, NoneNum, NoneNum)
    /\ nOps' = nOps + 1
    /\ lastSave' = NoSave
    /\ IF ~apiKey
       THEN Fail(ValueError("no_api_key")) /\ NoFetch
       ELSE IF IsEmpty(call'.city)
       THEN Fail(ValueError("empty_city")) /\ NoFetch
       ELSE result' = NoOutcome /\ StartFetch
    /\ UNCHANGED <<apiKey, file, clock, nFail, history, writers, cli>>

FinishWeatherSaveFirst(city, lat, lon) ==
    IF fres.kind = "raised"
    THEN /\ Fail(Reraise(fres.exc))
         /\ UNCHANGED <<file, clock, nFail, lastSave>>
    ELSE \E io \in IoOutcomes :
         LET data == fres.data
             entry == cache_entry(data, city, lat, lon, clock + 1)
             sr == save_cache_entry(file, entry, io)
         IN  /\ io # "ok" => nFail < MaxIoFailures
             /\ clock' = clock + 1
             /\ file' = sr.file
             /\ nFail' = IF sr.exc = None /\ ~sr.written THEN nFail + 1 ELSE nFail
             /\ lastSave' = Save(TRUE, entry, sr.written, sr.list)
             /\ IF sr.exc # None THEN Fail(Raised(sr.exc))
                ELSE IF fres.status # 200 THEN Fail(ValueError("api_error"))
                ELSE result' = Returned(data) /\ pc' = "done"
\* The rest of a current-weather function once the fetcher has ended, the
\* cache entry being stored under (city, lat, lon):
\*   except requests.RequestException -> raise requests.RequestException
\*   response.status_code != 200      -> raise ValueError
\*   otherwise _save_cache_entry(data, ...) and return data
FinishWeather(city, lat, lon) ==
    IF fres.kind = "raised"
    THEN /\ Fail(Reraise(fres.exc))
         /\ UNCHANGED <<file, clock, nFail, lastSave>>
    ELSE IF fres.status # 200
    THEN /\ Fail(ValueError("api_error"))
         /\ UNCHANGED <<file, clock, nFail, lastSave>>
    ELSE \E io \in IoOutcomes :
         LET data == fres.data
             entry == cache_entry(data, city, lat, lon, clock + 1)
             sr == save_cache_entry(file, entry, io)
         IN  /\ io # "ok" => nFail < MaxIoFailures
             /\ clock' = clock + 1
             /\ file' = sr.file
             /\ nFail' = IF sr.exc = None /\ ~sr.written THEN nFail + 1 ELSE nFail
             /\ lastSave' = Save(TRUE, entry, sr.written, sr.list)
             /\ IF sr.exc # None
                THEN Fail(Raised(sr.exc))
                ELSE result' = Returned(data) /\ pc' = "done"

WeatherByCoordinatesRestAnswerCoord ==
    /\ pc = "fetched"
    /\ call.fn = "get_weather_by_coordinates"
    /\ FinishWeather(None, fres.data.clat, fres.data.clon)
    /\ DropFetch
    /\ UNCHANGED <<apiKey, nOps, call, writers, cli>>
\* _save_cache_entry(data, lat=lat, lon=lon)
WeatherByCoordinatesRest ==
    /\ pc = "fetched"
    /\ call.fn = "get_weather_by_coordinates"
    /\ FinishWeather(None, call.lat, call.lon)
    /\ DropFetch
    /\ UNCHANGED <<apiKey, nOps, call, writers, cli>>

\* coord = data.get("coord", {}); _save_cache_entry(data, city=city, lat=lat, lon=lon)
WeatherByCityRest ==
    /\ pc = "fetched"
    /\ call.fn = "get_weather_by_city"
    /\ FinishWeather(call.city, fres.data.clat, fres.data.clon)
    /\ DropFetch
    /\ UNCHANGED <<apiKey, nOps, call, writers, cli>>

\* get_weather_by_coordinates once the fetcher has ended
GetWeatherByCoordinatesFinish == WeatherByCoordinatesRest /\ UNCHANGED history

\* get_weather_by_city once the fetcher has ended
GetWeatherByCityFinish == WeatherByCityRest /\ UNCHANGED history

\* the arguments of the direct calls of _save_cache_entry
SaveArgs ==
    {Call("_save_cache_entry", None, 55750, 37620),
     Call("_save_cache_entry", "Moscow", 55750, 37620)}

\* _save_cache_entry(data, city, lat, lon) called on its own
RecordEntry ==
    /\ pc = "idle"
    /\ clock < MaxWrites
    /\ \E a \in SaveArgs, io \in IoOutcomes :
        LET entry == cache_entry(WeatherData(1, a.lat, a.lon), a.city, a.lat, a.lon, clock + 1)
            sr == save_cache_entry(file, entry, io)
        IN  /\ io # "ok" => nFail < MaxIoFailures
            /\ clock' = clock + 1
            /\ file' = sr.file
            /\ nFail' = IF sr.exc = None /\ ~sr.written THEN nFail + 1 ELSE nFail
            /\ lastSave' = Save(TRUE, entry, sr.written, sr.list)
            /\ result' = IF sr.exc # None THEN Raised(sr.exc) ELSE Returned(NoData)
    /\ UNCHANGED <<apiKey, nOps, pc, call, attempt, last_exception, requests, seen, slept,
                   fres, history, writers, cli>>

---------------------------------------------------------------------------
(* get_coordinates, get_forecast_5d3h, get_air_pollution *)

coordinates_of_last_match(data) ==
    IF Len(data) = 0 THEN ValueError("not_found")
    ELSE Returned(<<data[Len(data)][1], data[Len(data)][2]>>)
\* get_coordinates on a 200 answer: no match is "city not found"; otherwise
\* location = data[0] and the result is (float(lat), float(lon))
coordinates_of_first_match(data) ==
    IF Len(data) = 0 THEN ValueError("not_found")
    ELSE LET location == data[1]
         IN  IF location[1] = NoneNum \/ location[2] = NoneNum
             THEN ValueError("no_coordinates")
             ELSE Returned(<<location[1], location[2]>>)

\* item_with_city = item.copy(); item_with_city["_city_info"] = city_info
item_with_city(item, city_info) == [item |-> item, city_info |-> city_info]

forecast_result_reversed(data) ==
    LET forecast_list == IF data.hasList THEN data.list ELSE <<>>
        n == Len(forecast_list)
    IN  Returned([i \in 1..n |-> item_with_city(forecast_list[n + 1 - i], data.city)])
\* get_forecast_5d3h on a 200 answer: forecast_list = data.get("list", []),
\* city_info = data.get("city", {}), one result element per item, in order
forecast_result(data) ==
    LET forecast_list == IF data.hasList THEN data.list ELSE <<>>
    IN  Returned([i \in 1..Len(forecast_list) |->
                    item_with_city(forecast_list[i], data.city)])

air_pollution_result_last(data) ==
    IF data.hasList /\ Len(data.list) > 0
    THEN Returned(data.list[Len(data.list)])
    ELSE ValueError("no_air_data")
\* get_air_pollution on a 200 answer: data["list"][0].get("components", {})
\* when "list" is there and not empty, ValueError otherwise
air_pollution_result(data) ==
    IF data.hasList /\ Len(data.list) > 0
    THEN Returned(data.list[1])
    ELSE ValueError("no_air_data")

\* How a function that only reads ends once the fetcher has ended, on200
\* being its result for the body of a 200 answer; the cache is not touched.
FinishReadOnly(on200) ==
    /\ result' = IF fres.kind = "raised" THEN Reraise(fres.exc)
                 ELSE IF fres.status # 200 THEN ValueError("api_error")
                 ELSE on200
    /\ pc' = "done"
    /\ DropFetch
    /\ UNCHANGED <<apiKey, file, clock, nOps, nFail, call, lastSave, history, writers,
                   cli>>

\* get_coordinates(city) up to the call of the fetcher
GetCoordinatesCall ==
    /\ pc \in {"idle", "done"}
    /\ nOps < MaxOps
    /\ \E city \in Cities :
        call' = Call("get_coordinates", city, NoneNum, NoneNum)
    /\ nOps' = nOps + 1
    /\ lastSave' = NoSave
    /\ IF ~apiKey
       THEN Fail(ValueError("no_api_key")) /\ NoFetch
       ELSE IF IsEmpty(call'.city)
       THEN Fail(ValueError("empty_city")) /\ NoFetch
       ELSE result' = NoOutcome /\ StartFetch
    /\ UNCHANGED <<apiKey, file, clock, nFail, history, writers, cli>>

\* get_coordinates from the answer of the fetcher on
GetCoordinatesFinish ==
    /\ pc = "fetched"
    /\ call.fn = "get_coordinates"
    /\ FinishReadOnly(coordinates_of_first_match(fres.data))

\* get_forecast_5d3h(lat, lon) up to the call of the fetcher
GetForecastCall ==
    /\ pc \in {"idle", "done"}
    /\ nOps < MaxOps
    /\ \E lat \in Lats, lon \in Lons :
        call' = Call("get_forecast_5d3h", None, lat, lon)
    /\ nOps' = nOps + 1
    /\ lastSave' = NoSave
    /\ IF ~apiKey
       THEN Fail(ValueError("no_api_key")) /\ NoFetch
       ELSE result' = NoOutcome /\ StartFetch
    /\ UNCHANGED <<apiKey, file, clock, nFail, history, writers, cli>>

GetForecastFinishCaching ==
    /\ pc = "fetched"
    /\ call.fn = "get_forecast_5d3h"
    /\ FinishWeather(None, call.lat, call.lon)
    /\ DropFetch
    /\ UNCHANGED <<apiKey, nOps, call, history, writers, cli>>
\* get_forecast_5d3h from the answer of the fetcher on
GetForecastFinish ==
    /\ pc = "fetched"
    /\ call.fn = "get_forecast_5d3h"
    /\ FinishReadOnly(forecast_result(fres.data))

\* get_air_pollution(lat, lon) up to the call of the fetcher
GetAirPollutionCall ==
    /\ pc \in {"idle", "done"}
    /\ nOps < MaxOps
    /\ \E lat \in Lats, lon \in Lons :
        call' = Call("get_air_pollution", None, lat, lon)
    /\ nOps' = nOps + 1
    /\ lastSave' = NoSave
    /\ IF ~apiKey
       THEN Fail(ValueError("no_api_key")) /\ NoFetch
       ELSE result' = NoOutcome /\ StartFetch
    /\ UNCHANGED <<apiKey, file, clock, nFail, history, writers, cli>>

\* get_air_pollution from the answer of the fetcher on
GetAirPollutionFinish ==
    /\ pc = "fetched"
    /\ call.fn = "get_air_pollution"
    /\ FinishReadOnly(air_pollution_result(fres.data))

---------------------------------------------------------------------------
(* _find_in_cache_by_city, _find_in_cache_by_coordinates *)

\* tolerance: float = 0.01, in thousandths of a degree
tolerance == 10

\* str.lower() on the city names of the model
Lower(str) ==
    CASE str \in {"Moscow", "MOSCOW", "moscow"} -> "moscow"
      [] str \in {"Paris", "paris"} -> "paris"
      [] str \in {"Berlin", "berlin"} -> "berlin"
      [] str \in {"Rome", "rome"} -> "rome"
      [] str \in {"Y", "y"} -> "y"
      [] OTHER -> str

Abs(x) == IF x < 0 THEN 0 - x ELSE x

CityMatchesAnyCity(entry, city) ==
    entry.city # None /\ entry.city # ""
\* entry.get("city") and entry.get("city").lower() == city.lower()
CityMatches(entry, city) ==
    entry.city # None /\ entry.city # "" /\ Lower(entry.city) = Lower(city)

\* entry_lat is not None and entry_lon is not None and
\* abs(float(entry_lat) - float(lat)) <= tolerance and
\* abs(float(entry_lon) - float(lon)) <= tolerance
\* (the difference of two doubles this close is computed exactly, so the
\* comparison is the one of the numbers)
CoordinatesMatch(entry, lat, lon, tol) ==
    /\ entry.lat # NoneNum
    /\ entry.lon # NoneNum
    /\ Abs(entry.lat - lat) <= tol
    /\ Abs(entry.lon - lon) <= tol

FirstOfLast(matches) ==
    IF matches = <<>> THEN Returned(NoData)
    ELSE Returned(matches[Len(matches)].weather_data)
\* if not matches: return None; return matches[0].get("weather_data")
\* (None is written NoData)
FirstOf(matches) ==
    IF matches = <<>> THEN Returned(NoData)
    ELSE Returned(matches[1].weather_data)

\* def _find_in_cache_by_city(city); iterating over a "cache" member that
\* is not a list (null) raises TypeError
find_in_cache_by_city(f, city) ==
    LET loaded == load_cache(f)
    IN  IF ~loaded.isList THEN Raised("TypeError")
        ELSE FirstOf(SelectSeq(loaded.list, LAMBDA entry : CityMatches(entry, city)))

\* def _find_in_cache_by_coordinates(lat, lon, tolerance=0.01)
find_in_cache_by_coordinates(f, lat, lon, tol) ==
    LET loaded == load_cache(f)
    IN  IF ~loaded.isList THEN Raised("TypeError")
        ELSE FirstOf(SelectSeq(loaded.list,
                               LAMBDA entry : CoordinatesMatch(entry, lat, lon, tol)))

\* the entries of the caches the lookups start from: fetched by city, by
\* coordinates close to the first, by city with no "coord" in the answer,
\* and by city with a "coord" that lacks the longitude
FindEntries ==
    {cache_entry(WeatherData(1, 55750, 37620), "Moscow", 55750, 37620, 0),
     cache_entry(WeatherData(2, 55758, 37628), None, 55758, 37628, 0),
     cache_entry(WeatherData(3, NoneNum, NoneNum), "MOSCOW", NoneNum, NoneNum, 0),
     cache_entry(WeatherData(4, 48850, NoneNum), "Paris", 48850, NoneNum, 0)}
\* the entry at position i was fetched before the one at position i - 1
Stamped(list) == [i \in 1..Len(list) |-> [list[i] EXCEPT !.fetched_at = 0 - i]]
FindLists == UNION {[1..n -> FindEntries] : n \in 0..MaxFindLen}
FindFiles ==
    {Dump(Stamped(l)) : l \in FindLists}
    \cup {BareListFile(Stamped(l)) : l \in FindLists}
    \cup {SingleEntryFile(e) : e \in FindEntries}
    \cup {MissingFile, UnparseableFile, ScalarFile, OtherObjectFile, BadCacheFile}

\* what the lookups are asked for
QueryCities == {"Moscow", "moscow", "Paris", "Rome"}
QueryLats == {55740, 55750, 55760, 55761, 48850}
QueryLons == {37618, 37620, 37630}
Tolerances == {tolerance, 5}

LookupFrame ==
    /\ pc = "idle"
    /\ UNCHANGED <<apiKey, file, clock, nOps, nFail, pc, attempt, last_exception,
                   requests, seen, slept, fres, lastSave, history, writers, cli>>

\* get_cached_weather_by_city(city): return _find_in_cache_by_city(city)
FindInCacheByCity ==
    /\ \E city \in QueryCities :
        /\ call' = Call("_find_in_cache_by_city", city, NoneNum, NoneNum)
        /\ result' = find_in_cache_by_city(file, city)
    /\ LookupFrame

\* _find_in_cache_by_coordinates(lat, lon, tolerance);
\* get_cached_weather_by_coordinates calls it with the default tolerance
FindInCacheByCoordinates ==
    /\ \E lat \in QueryLats, lon \in QueryLons, tol \in Tolerances :
        /\ call' = [Call("_find_in_cache_by_coordinates", None, lat, lon)
                        EXCEPT !.tolerance = tol]
        /\ result' = find_in_cache_by_coordinates(file, lat, lon, tol)
    /\ LookupFrame

---------------------------------------------------------------------------
(* analyze_air_pollution *)

\* float('inf'): above every concentration of the model
inf == 10000000

\* The labels of the five levels, in English
\* ("Хорошо", "Удовлетворительно", "Умеренно", "Плохо", "Очень плохо")
Good == "Good"
Fair == "Fair"
Moderate == "Moderate"
Poor == "Poor"
VeryPoor == "Very poor"

\* the brackets (min_val, max_val, index, status) of the levels from bounds b
Levels(b) ==
    <<<<0, b[1], 1, Good>>, <<b[1], b[2], 2, Fair>>, <<b[2], b[3], 3, Moderate>>,
      <<b[3], b[4], 4, Poor>>, <<b[4], inf, 5, VeryPoor>>>>

KnownComponents == {"so2", "no2", "pm10", "pm2_5", "o3", "co"}
\* AQI_LEVELS[component_key]
AQI_LEVELS(component_key) ==
    CASE component_key = "so2" -> Levels(<<20, 80, 250, 350>>)
      [] component_key = "no2" -> Levels(<<40, 70, 150, 200>>)
      [] component_key = "pm10" -> Levels(<<20, 50, 100, 200>>)
      [] component_key = "pm2_5" -> Levels(<<10, 25, 50, 75>>)
      [] component_key = "o3" -> Levels(<<60, 100, 140, 180>>)
      [] component_key = "co" -> Levels(<<4400, 9400, 12400, 15400>>)

\* COMPONENT_NAMES.get(component_key, component_key.upper())
COMPONENT_NAMES(component_key) ==
    CASE component_key = "so2" -> "SO2"
      [] component_key = "no2" -> "NO2"
      [] component_key = "pm10" -> "PM10"
      [] component_key = "pm2_5" -> "PM2.5"
      [] component_key = "o3" -> "O3"
      [] component_key = "co" -> "CO"

InBracketInclusive(bracket, value) == bracket[1] <= value /\ value <= bracket[2]
\* if min_val <= value < max_val
InBracket(bracket, value) == bracket[1] <= value /\ value < bracket[2]

\* no entry of component_levels
NoLevel == [value |-> NoneNum, index |-> 0, status |-> None, name |-> None]

\* The body of the loop over components.items() for one item: the entry of
\* component_levels of the first bracket that holds the value (break), none
\* for a key outside AQI_LEVELS, a None value or a value in no bracket.
level_of(component_key, value) ==
    IF component_key \in KnownComponents /\ value # NoneNum
    THEN LET brackets == AQI_LEVELS(component_key)
             hits == {i \in 1..Len(brackets) : InBracket(brackets[i], value)}
         IN  IF hits = {} THEN NoLevel
             ELSE LET b == brackets[CHOOSE i \in hits : \A j \in hits : i <= j]
                  IN  [value |-> value, index |-> b[3], status |-> b[4],
                       name |-> COMPONENT_NAMES(component_key)]
    ELSE NoLevel

\* component_levels after the loop: the pairs <<key, entry>> in the order
\* the keys were inserted, which is the order of components.items()
component_levels_of(components) ==
    LET all == [i \in 1..Len(components) |->
                    <<components[i][1], level_of(components[i][1], components[i][2])>>]
    IN  SelectSeq(all, LAMBDA kv : kv[2] # NoLevel)

RECURSIVE worst_of(_, _, _, _)
\* max_index and max_status after the entries from position i on, starting
\* from (max_index, max_status): if index > max_index, both are replaced
worst_of(levels, i, max_index, max_status) ==
    IF i > Len(levels) THEN <<max_index, max_status>>
    ELSE IF levels[i][2].index > max_index
    THEN worst_of(levels, i + 1, levels[i][2].index, levels[i][2].status)
    ELSE worst_of(levels, i + 1, max_index, max_status)

\* the entry of exceeded for an entry of component_levels
exceeded_item(comp_data) ==
    [name |-> comp_data.name, value |-> comp_data.value,
     status |-> comp_data.status, index |-> comp_data.index]

sorted_by_index_ascending(exceeded) ==
    SelectSeq(exceeded, LAMBDA x : x.index = 1) \o SelectSeq(exceeded, LAMBDA x : x.index = 2)
    \o SelectSeq(exceeded, LAMBDA x : x.index = 3) \o SelectSeq(exceeded, LAMBDA x : x.index = 4)
    \o SelectSeq(exceeded, LAMBDA x : x.index = 5)
\* exceeded.sort(key=lambda x: x["index"], reverse=True): list.sort is
\* stable, also with reverse=True; the indexes of the table are 1..5
sorted_by_index_descending(exceeded) ==
    SelectSeq(exceeded, LAMBDA x : x.index = 5) \o SelectSeq(exceeded, LAMBDA x : x.index = 4)
    \o SelectSeq(exceeded, LAMBDA x : x.index = 3) \o SelectSeq(exceeded, LAMBDA x : x.index = 2)
    \o SelectSeq(exceeded, LAMBDA x : x.index = 1)

exceeded_from_level_one(levels) ==
    LET with == SelectSeq(levels, LAMBDA kv : kv[2].index >= 1)
    IN  [i \in 1..Len(with) |-> exceeded_item(with[i][2])]
\* exceeded before the sort: the entries with comp_data["index"] >= 2
exceeded_of(levels) ==
    LET with == SelectSeq(levels, LAMBDA kv : kv[2].index >= 2)
    IN  [i \in 1..Len(with) |-> exceeded_item(with[i][2])]

worst_is_last(levels) ==
    IF levels = <<>> THEN <<1, Good>>
    ELSE <<levels[Len(levels)][2].index, levels[Len(levels)][2].status>>
\* max_index, max_status = 1, "Хорошо" and the loop over the components
worst(levels) == worst_of(levels, 1, 1, Good)

\* def analyze_air_pollution(components, extended=False); components is a
\* dict, here the sequence of its items <<key, value>> with distinct keys
analyze_air_pollution(components, extended) ==
    LET levels == component_levels_of(components)
        max == worst(levels)
    IN  IF extended
        THEN [overall_status |-> max[2], overall_index |-> max[1],
              exceeded_norms |-> sorted_by_index_descending(exceeded_of(levels)),
              component_levels |-> levels]
        ELSE [overall_status |-> max[2], overall_index |-> max[1]]

\* Concentrations around the bounds of the brackets of a pollutant, a
\* negative one, None, and one above the last bound
ValuesOf(component_key) ==
    LET brackets == AQI_LEVELS(component_key)
    IN  {NoneNum, 0 - 1, 0, brackets[5][1] + 1000}
        \cup UNION {{brackets[i][1] - 1, brackets[i][1], brackets[i][1] + 1} : i \in 2..5}
\* the keys and values of the components with more than one pollutant;
\* "nh3" is a pollutant the API reports and AQI_LEVELS does not know
SomeComponents == {"so2", "pm10", "pm2_5", "nh3"}
SomeValues == {NoneNum, 15, 60, 120}
Distinct(keys) == \A i, j \in DOMAIN keys : i # j => keys[i] # keys[j]
ComponentsInputs ==
    {<<>>}
    \cup {<<<<k, v>>>> : k \in {"nh3"}, v \in SomeValues}
    \cup UNION {{<<<<k, v>>>> : v \in ValuesOf(k)} : k \in KnownComponents}
    \cup UNION {{[i \in 1..n |-> <<keys[i], values[i]>>] :
                    keys \in {ks \in [1..n -> SomeComponents] : Distinct(ks)},
                    values \in [1..n -> SomeValues]} : n \in 2..MaxComponents}

\* display_extended_weather: the exceeded pollutant it prints is
\* exceeded_norms[0], "no exceedance" (None) when the list is empty
first_exceeded(air_analysis) ==
    IF air_analysis.exceeded_norms # <<>> THEN air_analysis.exceeded_norms[1].name
    ELSE None

\* a call of analyze_air_pollution
AnalyzeCall(components, extended) ==
    [fn |-> "analyze_air_pollution", components |-> components, extended |-> extended]

AnalyzeAirPollution ==
    /\ pc = "idle"
    /\ call.fn = "analyze_air_pollution"
    /\ result' = Returned(analyze_air_pollution(call.components, call.extended))
    /\ pc' = "done"
    /\ UNCHANGED <<apiKey, file, clock, nOps, nFail, call, attempt, last_exception,
                   requests, seen, slept, fres, lastSave, history, writers, cli>>

---------------------------------------------------------------------------
(* Specifications *)

Next ==
    \/ GetWeatherByCoordinatesCall
    \/ GetWeatherByCityCall
    \/ AttemptOk
    \/ AttemptRetryableStatus
    \/ AttemptOtherStatus
    \/ AttemptCaughtException
    \/ AttemptOtherException
    \/ GetWeatherByCoordinatesFinish
    \/ GetWeatherByCityFinish
    \/ GetCoordinatesCall
    \/ GetCoordinatesFinish
    \/ GetForecastCall
    \/ GetForecastFinish
    \/ GetAirPollutionCall
    \/ GetAirPollutionFinish

\* the public functions called one after the other
Spec == Init /\ [][Next]_vars

\* The fetcher is a synchronous loop and every requests.get ends (timeout=10),
\* so a call that has started runs to its end.
FairSpec == Spec /\ WF_vars(FetcherStep)

InitCache ==
    /\ apiKey = TRUE
    /\ file \in InitFiles
    /\ InitRest

NextCache == RecordEntry

\* _save_cache_entry called repeatedly
SpecCache == InitCache /\ [][NextCache]_vars

InitFind ==
    /\ apiKey = TRUE
    /\ file \in FindFiles
    /\ InitRest

NextFind ==
    \/ FindInCacheByCity
    \/ FindInCacheByCoordinates

\* lookups in a cache of up to MaxFindLen entries
SpecFind == InitFind /\ [][NextFind]_vars

InitClassify ==
    /\ apiKey = TRUE
    /\ file = MissingFile
    /\ clock = 0 /\ nOps = 0 /\ nFail = 0
    /\ pc = "idle"
    /\ call \in {AnalyzeCall(c, e) : c \in ComponentsInputs, e \in BOOLEAN}
    /\ attempt = 0 /\ last_exception = None /\ requests = 0
    /\ seen = <<>> /\ slept = <<>>
    /\ fres = NoOutcome /\ result = NoOutcome /\ lastSave = NoSave
    /\ history = <<>>
    /\ writers = [t \in Threads |-> NoWriter]
    /\ cli = NoCli

NextClassify == AnalyzeAirPollution

\* analyze_air_pollution applied to components of up to MaxComponents pollutants
SpecClassify == InitClassify /\ [][NextClassify]_vars

\* The current-weather functions called one after the other, many times.
\* The first MaxVaried writes of the cache vary; after them the caller asks
\* for the weather at one place, and the writes succeed.
Varied == clock < MaxVaried

\* the latitudes asked for: 0.005 and 0.015 degrees north of the "coord"
\* member of the answers, (55.750, 37.620)
SeqLats == {55755, 55765}

\* How a call of _make_request_with_retry ends, taken as one step: with a
\* 200 answer that carries a record of its own, with the answer of another
\* status, or with the exception it raises when the retries are used up.
FetcherEnds ==
    {Response(200, WeatherData(clock + 1, 55750, 37620)),
     Response(404, NoData), Raised(ServerError)}

\* a call that has passed its checks, with the fetcher run to its end
Fetch ==
    /\ result' = NoOutcome
    /\ pc' = "fetched"
    /\ fres' \in FetcherEnds
    /\ requests' = IF fres'.kind = "raised" THEN max_retries ELSE 1
    /\ UNCHANGED <<attempt, last_exception, seen, slept>>

\* get_weather_by_city(city) up to the end of the fetcher
SeqWeatherByCity ==
    /\ pc \in {"idle", "done"}
    /\ clock < MaxWrites
    /\ Varied
    /\ lastSave' = NoSave
    /\ \E city \in Cities \cup {"Paris"} :
        call' = Call("get_weather_by_city", city, NoneNum, NoneNum)
    /\ IF ~apiKey
       THEN Fail(ValueError("no_api_key")) /\ NoFetch
       ELSE IF IsEmpty(call'.city)
       THEN Fail(ValueError("empty_city")) /\ NoFetch
       ELSE Fetch
    /\ UNCHANGED <<apiKey, file, clock, nOps, nFail, history, writers, cli>>

\* get_weather_by_coordinates(lat, lon) up to the end of the fetcher
SeqWeatherByCoordinates ==
    /\ pc \in {"idle", "done"}
    /\ clock < MaxWrites
    /\ lastSave' = NoSave
    /\ \E lat \in SeqLats, lon \in Lons :
        /\ ~Varied => lat = 55765
        /\ call' = Call("get_weather_by_coordinates", None, lat, lon)
    /\ IF ~apiKey
       THEN Fail(ValueError("no_api_key")) /\ NoFetch
       ELSE Fetch
    /\ UNCHANGED <<apiKey, file, clock, nOps, nFail, history, writers, cli>>

\* The rest of the call, a fetch that returned being added to the history;
\* past the first MaxVaried writes the write succeeds.
SeqFinish ==
    /\ WeatherByCoordinatesRest \/ WeatherByCityRest
    /\ ~Varied /\ lastSave'.called => lastSave'.written
    /\ history' = IF result'.kind = "returned"
                  THEN Append(history, Fetched(lastSave'.entry, lastSave'.written,
                                               file'.kind # "unparseable"))
                  ELSE history

InitSeq ==
    /\ apiKey = TRUE
    /\ file \in {MissingFile, Dump(OldList(MAX_CACHE_SIZE - 1))}
    /\ InitRest

NextSeq ==
    \/ SeqWeatherByCity
    \/ SeqWeatherByCoordinates
    \/ SeqFinish

SpecSeq == InitSeq /\ [][NextSeq]_vars

\* _save_cache_entry run by two threads, each once. Nothing is locked
\* between the load and the write, so the other thread may run in between;
\* a write replaces the whole file in one step.
cache_list_uncapped(f, entry) == InsertFront(load_cache(f).list, entry)
\* cache_list = _load_cache(); cache_list.insert(0, cache_entry);
\* if len(cache_list) > MAX_CACHE_SIZE: cache_list = cache_list[:MAX_CACHE_SIZE]
cache_list_of(f, entry) == Truncate(InsertFront(load_cache(f).list, entry))

\* thread t builds its entry, loads the file and prepares its list
WriterLoad(t) ==
    /\ writers[t].at = "start"
    /\ \E a \in SaveArgs :
        LET entry == cache_entry(WeatherData(1, a.lat, a.lon), a.city, a.lat, a.lon, clock + 1)
        IN  writers' = [writers EXCEPT ![t] =
                IF ~load_cache(file).isList
                THEN Writer("raised", entry, <<>>)
                ELSE Writer("loaded", entry, cache_list_of(file, entry))]
    /\ clock' = clock + 1
    /\ UNCHANGED <<apiKey, file, nOps, nFail, pc, call, attempt, last_exception,
                   requests, seen, slept, fres, result, lastSave, history, cli>>

\* thread t writes the list it prepared
WriterWrite(t) ==
    /\ writers[t].at = "loaded"
    /\ \E io \in IoOutcomes :
        /\ io # "ok" => nFail < MaxIoFailures
        /\ file' = IF io = "ok" THEN Dump(writers[t].cache_list)
                   ELSE IF io = "open" THEN file
                   ELSE UnparseableFile
        /\ nFail' = IF io = "ok" THEN nFail ELSE nFail + 1
        /\ writers' = [writers EXCEPT ![t].at = IF io = "ok" THEN "done" ELSE "failed"]
    /\ UNCHANGED <<apiKey, clock, nOps, pc, call, attempt, last_exception,
                   requests, seen, slept, fres, result, lastSave, history, cli>>

InitRace ==
    /\ apiKey = TRUE
    /\ file \in InitFiles
    /\ InitRest

NextRace == \E t \in Threads : WriterLoad(t) \/ WriterWrite(t)

SpecRace == InitRace /\ [][NextRace]_vars

---------------------------------------------------------------------------
(* main.py: the current-weather functions of the weather menu *)

\* str.strip() on the inputs of the model
Strip(str) ==
    CASE str \in {"", " "} -> ""
      [] str = " moscow " -> "moscow"
      [] str = " 55.755 " -> "55.755"
      [] str = " Y " -> "Y"
      [] OTHER -> str

\* float(str), in thousandths of a degree; NoneNum when it raises ValueError
Float(str) ==
    CASE str = "55.750" -> 55750
      [] str = "55.755" -> 55755
      [] str = "37.620" -> 37620
      [] OTHER -> NoneNum

\* what the user types at the prompts
TypedCities == {"", " ", "Moscow", " moscow "}
TypedLats == {"", "abc", "55.750", " 55.755 "}
TypedLons == {" ", "37.620"}
Answers == {"y", " Y ", "n", ""}

\* the function prints and returns to the menu
Printed(c, shown) == [c EXCEPT !.at = "menu", !.shown = shown]

\* get_weather_by_city_name up to the call of get_weather_by_city:
\* city = input(...).strip(); if not city: print and return
CliWeatherByCityName ==
    /\ cli.at = "menu"
    /\ pc = "idle"
    /\ \E typed \in TypedCities :
        LET c == Cli("get_weather_by_city_name", "calling", Strip(typed), NoneNum, NoneNum)
        IN  cli' = IF IsEmpty(c.city) THEN Printed(c, "empty_city") ELSE c
    /\ UNCHANGED <<apiKey, file, clock, nOps, nFail, pc, call, attempt, last_exception,
                   requests, seen, slept, fres, result, lastSave, history, writers>>

\* weather_data = get_weather_by_city(city)
CliCallWeatherByCity ==
    /\ cli.at = "calling"
    /\ cli.fn = "get_weather_by_city_name"
    /\ pc = "idle"
    /\ GetWeatherByCityCall
    /\ call'.city = cli.city

\* get_weather_by_coords up to the call of get_weather_by_coordinates: both
\* inputs are stripped and must not be empty, and both must be numbers
CliWeatherByCoords ==
    /\ cli.at = "menu"
    /\ pc = "idle"
    /\ \E typed_lat \in TypedLats, typed_lon \in TypedLons :
        LET lat_str == Strip(typed_lat)
            lon_str == Strip(typed_lon)
            c == Cli("get_weather_by_coords", "calling", None, Float(lat_str), Float(lon_str))
            unread == Cli("get_weather_by_coords", "calling", None, NoneNum, NoneNum)
        IN  cli' = IF lat_str = "" THEN Printed(unread, "empty_lat")
                   ELSE IF lon_str = "" THEN Printed(unread, "empty_lon")
                   ELSE IF c.lat = NoneNum \/ c.lon = NoneNum
                   THEN Printed(unread, "bad_coordinates")
                   ELSE c
    /\ UNCHANGED <<apiKey, file, clock, nOps, nFail, pc, call, attempt, last_exception,
                   requests, seen, slept, fres, result, lastSave, history, writers>>

\* weather_data = get_weather_by_coordinates(lat, lon)
CliCallWeatherByCoordinates ==
    /\ cli.at = "calling"
    /\ cli.fn = "get_weather_by_coords"
    /\ pc = "idle"
    /\ GetWeatherByCoordinatesCall
    /\ call'.lat = cli.lat /\ call'.lon = cli.lon

CliAfterFetchAnyError ==
    /\ cli.at = "calling"
    /\ pc = "done"
    /\ cli' = IF result.kind = "returned" THEN Printed(cli, "weather")
              ELSE [cli EXCEPT !.at = "asked", !.shown = "network_error"]
    /\ pc' = "idle"
    /\ UNCHANGED <<apiKey, file, clock, nOps, nFail, call, attempt, last_exception,
                   requests, seen, slept, fres, result, lastSave, history, writers>>
\* The weather function has ended: its record is displayed; after
\* except requests.RequestException the error is printed and the cache is
\* offered; after except ValueError and except Exception the error is
\* printed. The call is over, and the menu function goes on.
CliAfterFetch ==
    /\ cli.at = "calling"
    /\ pc = "done"
    /\ cli' = IF result.kind = "returned" THEN Printed(cli, "weather")
              ELSE IF IsRequestException(result.exc)
              THEN [cli EXCEPT !.at = "asked", !.shown = "network_error"]
              ELSE IF result.exc = "ValueError" THEN Printed(cli, "error")
              ELSE Printed(cli, "unexpected_error")
    /\ pc' = "idle"
    /\ UNCHANGED <<apiKey, file, clock, nOps, nFail, call, attempt, last_exception,
                   requests, seen, slept, fres, result, lastSave, history, writers>>

\* get_cached_weather_by_city(city) and
\* get_cached_weather_by_coordinates(lat, lon) with the locals of c
CachedLookup(c) ==
    IF c.fn = "get_weather_by_city_name"
    THEN Call("get_cached_weather_by_city", c.city, NoneNum, NoneNum)
    ELSE [Call("get_cached_weather_by_coordinates", None, c.lat, c.lon)
              EXCEPT !.tolerance = tolerance]

\* use_cache = input().strip().lower(); if use_cache == 'y': the cache is
\* looked up with the locals of the function, and the record is displayed
\* when there is one. An exception of the lookup is raised inside the
\* except clause and leaves the function.
CliAnswer ==
    /\ cli.at = "asked"
    /\ \E answer \in Answers :
        LET use_cache == Lower(Strip(answer))
            asked == [cli EXCEPT !.use_cache = use_cache]
            lookup == CachedLookup(cli)
            found == IF lookup.fn = "get_cached_weather_by_city"
                     THEN find_in_cache_by_city(file, lookup.city)
                     ELSE find_in_cache_by_coordinates(file, lookup.lat, lookup.lon,
                                                       lookup.tolerance)
        IN  IF use_cache = "y"
            THEN /\ call' = lookup
                 /\ result' = found
                 /\ cli' = IF found.kind = "raised" THEN [asked EXCEPT !.at = "crashed"]
                           ELSE IF found.data # NoData THEN Printed(asked, "cached_weather")
                           ELSE Printed(asked, "not_in_cache")
            ELSE /\ cli' = Printed(asked, "network_error")
                 /\ UNCHANGED <<call, result>>
    /\ UNCHANGED <<apiKey, file, clock, nOps, nFail, pc, attempt, last_exception,
                   requests, seen, slept, fres, lastSave, history, writers>>

InitCli ==
    /\ apiKey \in BOOLEAN
    /\ file \in {MissingFile, UnparseableFile, BadCacheFile}
                  \cup {Dump(<<e>>) : e \in FindEntries}
    /\ InitRest

NextCli ==
    \/ CliWeatherByCityName
    \/ CliCallWeatherByCity
    \/ CliWeatherByCoords
    \/ CliCallWeatherByCoordinates
    \/ AttemptOk
    \/ AttemptRetryableStatus
    \/ AttemptOtherStatus
    \/ AttemptCaughtException
    \/ AttemptOtherException
    \/ GetWeatherByCoordinatesFinish
    \/ GetWeatherByCityFinish
    \/ CliAfterFetch
    \/ CliAnswer

\* the two current-weather functions of the menu, used one after the other
SpecCli == InitCli /\ [][NextCli]_vars

---------------------------------------------------------------------------
(* Properties of the retrying fetcher *)

\* what a claim calls a retryable condition: HTTP 429, any 5xx, a
\* connection failure or a timeout
Retryable(o) ==
    \/ o[1] = 429
    \/ o[1] \in 500..599
    \/ o[2] \in {"ConnectionError", "Timeout"}
AllRetryable(os) == \A i \in 1..Len(os) : Retryable(os[i])
\* an HTTP status that is neither 200, nor 429, nor 5xx
OtherStatus(o) == o[2] = None /\ o[1] # 200 /\ o[1] # 429 /\ o[1] \notin 500..599
FetcherEnded == pc = "fetched"
Last(os) == os[Len(os)]

\* C1: one call of the retrying fetcher issues at most 3 HTTP requests,
\* whatever the attempts produce; retries after a status and retries after an
\* exception count against the same budget.
C1_AtMostThreeRequests == requests <= 3

\* three requests, retried once after a status and once after an exception
C1_Witness ==
    /\ FetcherEnded
    /\ requests = 3
    /\ \E i, j \in 1..2 : seen[i][1] \in {429} \cup (500..599) /\ seen[j][2] = "Timeout"

\* C2: every call of the fetcher ends, and it ends by returning a response
\* or by raising an exception of the requests.RequestException kind.
C2_EndsWithResponseOrNetworkError ==
    /\ (pc = "request") ~> FetcherEnded
    /\ [](FetcherEnded =>
            \/ fres.kind = "returned" /\ fres.status \in StatusCodes
            \/ /\ fres.kind = "raised"
               /\ fres.exc \in {"RequestException", "ConnectionError",
                                "Timeout", "TooManyRedirects"})

\* the fetcher has raised after its last attempt met a 5xx
C2_Witness ==
    /\ FetcherEnded
    /\ fres.kind = "raised"
    /\ Len(seen) = 3
    /\ Last(seen)[1] \in 500..599

\* C3: a status that is neither 200, nor 429, nor 5xx ends the fetcher at
\* once with that response: the request that received it is the last one,
\* every sleep precedes it, and nothing is requested afterwards.
C3_OtherStatusReturnedAtOnce ==
    /\ [](seen # <<>> /\ OtherStatus(Last(seen)) =>
            /\ FetcherEnded
            /\ fres.kind = "returned"
            /\ fres.status = Last(seen)[1]
            /\ requests = Len(seen)
            /\ Len(slept) = Len(seen) - 1
            /\ \A i \in 1..Len(slept) : slept[i][1] < Len(seen) - 1)
    /\ [][seen # <<>> /\ OtherStatus(Last(seen)) => requests' = requests]_vars

\* a 404 received on the third attempt is returned
C3_Witness ==
    /\ FetcherEnded
    /\ Len(seen) = 3
    /\ OtherStatus(Last(seen))
    /\ fres.status = 404

\* C4: when every attempt meets a retryable condition, the fetcher raises a
\* RequestException after exactly 3 requests, having slept 1 * base_delay
\* after the first and 2 * base_delay after the second, and nothing after the
\* third.
C4_ExhaustedAfterThreeAttempts ==
    FetcherEnded /\ seen # <<>> /\ AllRetryable(seen) =>
        /\ fres.kind = "raised"
        /\ fres.exc = "RequestException"
        /\ requests = 3
        /\ Len(seen) = 3
        /\ slept = <<<<0, 1 * base_delay>>, <<1, 2 * base_delay>>>>

\* three retryable outcomes of different kinds
C4_Witness ==
    /\ FetcherEnded
    /\ seen = <<<<429, None>>, <<0, "ConnectionError">>, <<0, "Timeout">>>>
    /\ fres.kind = "raised"

\* C5: the fetcher keeps going while fewer than 3 attempts have all met
\* retryable conditions, and a 200 received on attempt k+1 (k = 0, 1, 2) is
\* returned after exactly k+1 requests, nothing being raised.
C5_ReturnsOkAfterRetries ==
    /\ (seen # <<>> /\ AllRetryable(seen) /\ Len(seen) < 3 => pc = "request")
    /\ (seen # <<>> /\ Last(seen)[1] = 200 =>
            /\ FetcherEnded
            /\ fres.kind = "returned"
            /\ fres.status = 200
            /\ requests = Len(seen)
            /\ Len(seen) <= 3
            /\ AllRetryable(SubSeq(seen, 1, Len(seen) - 1)))

\* the responses 429, 500, 200
C5_Witness ==
    /\ FetcherEnded
    /\ seen = <<<<429, None>>, <<500, None>>, <<200, None>>>>
    /\ fres.kind = "returned"
    /\ fres.status = 200

\* C6 as stated: the delay slept before attempt n (0-indexed) is
\* base_delay * 2^n; the sleep recorded after attempt a precedes attempt a+1.
C6_DelayBeforeAttemptN ==
    \A i \in 1..Len(slept) : slept[i][2] = base_delay * 2^(slept[i][1] + 1)

\* C6 amended: the delay slept after the failed attempt n (0-indexed), that
\* is before attempt n+1, is base_delay * 2^n; nothing is slept before
\* attempt 0 and the delay depends on the attempt number only.
C6_DelayAfterAttemptN ==
    /\ Len(slept) <= Len(seen)
    /\ \A i \in 1..Len(slept) : slept[i] = <<i - 1, base_delay * 2^(i - 1)>>

\* two delays have been slept
C6_Witness == Len(slept) = 2 /\ pc = "request"

---------------------------------------------------------------------------
(* Properties of the result cache *)

\* the entries a file holds in one of the three accepted shapes (a bare
\* entry, an object with a "cache" list, a bare list), none otherwise
Stored(f) ==
    IF f.kind = "array" THEN f.items
    ELSE IF f.kind = "object" /\ f.wd THEN <<f.self>>
    ELSE IF f.kind = "object" /\ f.hc /\ f.cl THEN f.items
    ELSE <<>>
\* the step is a call of _save_cache_entry that wrote the file
Wrote == clock' = clock + 1 /\ lastSave'.called /\ lastSave'.written

\* C7: after a _save_cache_entry whose write succeeded the file holds at
\* most 10 entries, whatever it held before, and later calls keep it so.
C7_AtMostTenEntries ==
    /\ [](lastSave.written => Len(Stored(file)) <= 10)
    /\ [][Len(Stored(file)) <= 10 => Len(Stored(file')) <= 10]_vars

\* the first write over a legacy bare list of 12 entries left 10
C7_Witness ==
    /\ lastSave.written
    /\ clock = 1
    /\ file.kind = "object"
    /\ Len(file.items) = 10
    /\ file.items[10] = LegacyEntry(9)

\* C8: a write puts the new entry at position 0, keeps the entries stored
\* before in their order behind it and drops entries from the tail only;
\* after n writes in a row the first min(n, 10) entries are the last written,
\* newest first, so after 11 the first written is gone.
C8_PrependAndEvictTail ==
    /\ [][Wrote =>
            LET old == Stored(file)
                new == Stored(file')
            IN  /\ Len(new) = Min(Len(old) + 1, 10)
                /\ new[1] = lastSave'.entry
                /\ \A i \in 2..Len(new) : new[i] = old[i - 1]]_vars
    /\ [](lastSave.written /\ nFail = 0 =>
            /\ Len(Stored(file)) >= Min(clock, 10)
            /\ \A i \in 1..Min(clock, 10) : Stored(file)[i].fetched_at = clock - i + 1
            /\ (clock >= 11 => \A i \in 1..Len(Stored(file)) : Stored(file)[i].fetched_at # 1))

\* eleven writes in a row: the entries written 11th down to 2nd are stored
C8_Witness ==
    /\ lastSave.written
    /\ nFail = 0
    /\ clock = 11
    /\ Len(Stored(file)) = 10
    /\ Stored(file)[1].fetched_at = 11
    /\ Stored(file)[10].fetched_at = 2

\* C9: when the current-weather endpoint answers 200, get_weather_by_city
\* and get_weather_by_coordinates return the fetched record, whatever the
\* cache file holds and whether the write of the cache fails.
C9_CacheNeverFailsTheCall ==
    [][FetcherEnded /\ fres.kind = "returned" /\ fres.status = 200 =>
            result'.kind = "returned" /\ result'.data = fres.data]_vars

\* C10: the loader yields a list for every file of an accepted shape; the same entries in the
\* list-wrapped shape and in the bare-list shape load to the same list, a
\* bare single entry loads to the list of that entry, and what
\* _save_cache_entry wrote loads back as the list it wrote.
C10_LoaderNormalizes ==
    LET list == Stored(file)
    IN  /\ load_cache(Dump(list)) = Loaded(TRUE, list)
        /\ load_cache(BareListFile(list)) = load_cache(Dump(list))
        /\ \A i \in 1..Len(list) :
                load_cache(SingleEntryFile(list[i])) = Loaded(TRUE, <<list[i]>>)
        /\ (file.kind \in {"missing", "unparseable", "scalar", "array"}
                \/ (file.kind = "object" /\ (file.wd \/ ~file.hc \/ file.cl))
              => load_cache(file) = Loaded(TRUE, list))
        /\ (lastSave.written => load_cache(file) = Loaded(TRUE, lastSave.list))

\* a write that found the old single-entry shape: the entry it loaded is kept
C10_Witness ==
    /\ lastSave.written
    /\ clock = 1
    /\ lastSave.list = <<lastSave.entry, OldEntry(1)>>
    /\ Stored(file) = lastSave.list

---------------------------------------------------------------------------
(* Lookups *)

\* city names that differ in case only
SameIgnoringCase(a, b) ==
    \E names \in {{"Moscow", "MOSCOW", "moscow"}, {"Paris", "paris"},
                  {"Berlin", "berlin"}, {"Rome", "rome"}} :
        a \in names /\ b \in names
\* the positions, newest first, of the entries with this city
EntriesOfCity(es, city) == {i \in 1..Len(es) : SameIgnoringCase(es[i].city, city)}
\* the positions of the entries with both coordinates stored and within tol
\* of (lat, lon) on each axis
EntriesInBox(es, lat, lon, tol) ==
    {i \in 1..Len(es) :
        /\ es[i].lat # NoneNum /\ es[i].lon # NoneNum
        /\ lat - tol <= es[i].lat /\ es[i].lat <= lat + tol
        /\ lon - tol <= es[i].lon /\ es[i].lon <= lon + tol}
Newest(positions) == CHOOSE i \in positions : \A j \in positions : i <= j
\* what a lookup that matches these positions is to return
RecordOfNewest(es, positions) ==
    IF positions = {} THEN Returned(NoData)
    ELSE Returned(es[Newest(positions)].weather_data)
LookedUpByCity == call.fn = "_find_in_cache_by_city"
LookedUpByCoordinates == call.fn = "_find_in_cache_by_coordinates"

\* C11: the lookup by city returns the record of the newest entry whose
\* city equals the query ignoring case, and nothing when no entry has such
\* a city; a query that differs in case only gets the same answer.
C11_FindByCity ==
    LookedUpByCity =>
        /\ result = RecordOfNewest(Stored(file), EntriesOfCity(Stored(file), call.city))
        /\ \A city \in QueryCities :
                SameIgnoringCase(city, call.city) =>
                    find_in_cache_by_city(file, city) = result

\* C12: the lookup by coordinates matches exactly the entries that have
\* both coordinates stored and are within the tolerance on each axis, and
\* returns the record of the newest of them, nothing when there is none.
C12_FindByCoordinates ==
    LookedUpByCoordinates =>
        result = RecordOfNewest(Stored(file),
                     EntriesInBox(Stored(file), call.lat, call.lon, call.tolerance))

\* C13 as stated: for every entry e of the cache, a lookup within the
\* default tolerance of e on both axes returns the record of e, and a lookup
\* outside it on some axis returns nothing.
C13_ReturnsThatEntry ==
    LookedUpByCoordinates /\ call.tolerance = tolerance =>
        \A i \in 1..Len(Stored(file)) :
            LET e == Stored(file)[i]
            IN  e.lat # NoneNum /\ e.lon # NoneNum =>
                    IF i \in EntriesInBox(Stored(file), call.lat, call.lon, tolerance)
                    THEN result = Returned(e.weather_data)
                    ELSE result = Returned(NoData)

\* C13: for every entry e of the cache with its coordinates stored, a lookup
\* within the default tolerance of e on both axes returns the record of the
\* newest entry within the tolerance, which is the record of e when no newer
\* entry is within it; a lookup outside the tolerance of e and of every
\* other entry returns nothing.
C13_ReturnsNewestWithinTolerance ==
    LookedUpByCoordinates /\ call.tolerance = tolerance =>
        \A i \in 1..Len(Stored(file)) :
            LET es == Stored(file)
                box == EntriesInBox(es, call.lat, call.lon, tolerance)
            IN  es[i].lat # NoneNum /\ es[i].lon # NoneNum =>
                    /\ i \in box => result = Returned(es[Newest(box)].weather_data)
                    /\ i \in box /\ (\A j \in box : i <= j) =>
                            result = Returned(es[i].weather_data)
                    /\ box = {} => result = Returned(NoData)

\* a lookup at the coordinates of an entry that lies behind a newer entry
\* within the tolerance, answered with the record of the newer one
C13_Witness ==
    /\ LookedUpByCoordinates /\ call.tolerance = tolerance
    /\ call.lat = 55750 /\ call.lon = 37620
    /\ Len(Stored(file)) = 2
    /\ Stored(file)[1].weather_data.rec = 2
    /\ Stored(file)[2].weather_data.rec = 1
    /\ result = Returned(WeatherData(2, 55758, 37628))

---------------------------------------------------------------------------
(* The functions that call the API *)

\* the step is the start of a call of a public function
Called == nOps' = nOps + 1
\* the step is the end of a call of fn whose fetcher has ended
Finished(fn) == pc = "fetched" /\ pc' = "done" /\ call.fn = fn
Answered200 == fres.kind = "returned" /\ fres.status = 200
FailedWith(o, exc) == o.kind = "raised" /\ o.exc = exc
ApiFunctions ==
    {"get_coordinates", "get_weather_by_coordinates", "get_weather_by_city",
     "get_forecast_5d3h", "get_air_pollution"}

\* C14: with the API key unset each of the five functions fails with a
\* ValueError before any request, and get_coordinates and
\* get_weather_by_city with an empty city fail with a ValueError without a
\* request and without reading or writing the cache.
C14_FailsBeforeAnyRequest ==
    [][Called /\ call'.fn \in ApiFunctions
         /\ (~apiKey \/ (call'.fn \in {"get_coordinates", "get_weather_by_city"}
                            /\ call'.city = ""))
         => /\ pc' = "done"
            /\ FailedWith(result', "ValueError")
            /\ requests' = 0
            /\ file' = file /\ clock' = clock /\ ~lastSave'.called]_vars

\* get_weather_by_city("") with the key set has failed with no request
C14_Witness ==
    /\ apiKey
    /\ pc = "done"
    /\ call.fn = "get_weather_by_city" /\ call.city = ""
    /\ result = ValueError("empty_city")
    /\ requests = 0

\* C15: when the fetcher raises after its attempts are exhausted, each of
\* the five functions fails with a RequestException, not a ValueError; when
\* the fetcher returns a response that is neither 200 nor retryable, the
\* function fails with a ValueError, not a RequestException.
C15_NetworkErrorOrValueError ==
    [][pc = "fetched" /\ pc' = "done" /\ call.fn \in ApiFunctions =>
        /\ fres.kind = "raised" /\ Len(seen) = max_retries /\ AllRetryable(seen)
              => FailedWith(result', "RequestException")
        /\ fres.kind = "returned" /\ OtherStatus(Last(seen))
              => FailedWith(result', "ValueError")]_vars

\* get_forecast_5d3h has failed with a RequestException after three requests
C15_Witness ==
    /\ pc = "done"
    /\ call.fn = "get_forecast_5d3h"
    /\ result = Raised("RequestException")
    /\ requests = max_retries

\* C16: on a 200 answer with no match get_coordinates fails with the
\* ValueError "city not found", not with a RequestException; on a 200
\* answer with at least one match, the first carrying both coordinates, it
\* returns the latitude and longitude of the first match, whatever follows.
C16_FirstMatchOrNotFound ==
    [][Finished("get_coordinates") /\ Answered200 =>
        LET data == fres.data
        IN  /\ Len(data) = 0 => result' = ValueError("not_found")
            /\ Len(data) > 0 /\ data[1][1] # NoneNum /\ data[1][2] # NoneNum
                  => result' = Returned(<<data[1][1], data[1][2]>>)]_vars

\* get_coordinates("Moscow") has returned a pair of coordinates
C16_Witness ==
    /\ pc = "done"
    /\ call.fn = "get_coordinates" /\ call.city = "Moscow"
    /\ result = Returned(<<48850, 2350>>)

\* C17 as stated: a get_weather_by_city that returned wrote one cache entry
\* with the caller's city and the coordinates of the answer, so that the
\* lookup by that city and the lookup at those coordinates both return the
\* record it returned.
C17_FetchedIsFound ==
    pc = "done" /\ call.fn = "get_weather_by_city" /\ result.kind = "returned" =>
        LET data == result.data
            e == Stored(file)[1]
        IN  /\ lastSave.written
            /\ Len(Stored(file)) > 0
            /\ e.city = call.city /\ e.lat = data.clat /\ e.lon = data.clon
            /\ e.weather_data = data
            /\ find_in_cache_by_city(file, call.city) = result
            /\ data.clat # NoneNum /\ data.clon # NoneNum =>
                  find_in_cache_by_coordinates(file, data.clat, data.clon, tolerance)
                      = result

\* C17: a get_weather_by_city that returned and whose write of the cache
\* succeeded wrote one cache entry, at the front, with the caller's city and
\* the coordinates of the answer, so that the lookup by that city returns
\* the record it returned, and so does the lookup at those coordinates when
\* the answer carries both.
C17_WrittenIsFound ==
    /\ pc = "done" /\ call.fn = "get_weather_by_city" /\ result.kind = "returned"
    /\ lastSave.written
    => LET data == result.data
           e == Stored(file)[1]
       IN  /\ Len(Stored(file)) > 0
           /\ e.city = call.city /\ e.lat = data.clat /\ e.lon = data.clon
           /\ e.weather_data = data
           /\ find_in_cache_by_city(file, call.city) = result
           /\ data.clat # NoneNum /\ data.clon # NoneNum =>
                 find_in_cache_by_coordinates(file, data.clat, data.clon, tolerance)
                     = result

\* get_weather_by_city("Moscow") has returned a record with coordinates and
\* written it in front of the entries the cache held
C17_Witness ==
    /\ pc = "done" /\ call.fn = "get_weather_by_city" /\ call.city = "Moscow"
    /\ result.kind = "returned"
    /\ result.data.clat # NoneNum /\ result.data.clon # NoneNum
    /\ lastSave.written
    /\ Len(Stored(file)) > 1
    /\ Stored(file)[1].weather_data = result.data

\* C18: get_forecast_5d3h never writes the cache, whatever its outcome.
C18_ForecastLeavesCache ==
    [][call'.fn = "get_forecast_5d3h" =>
            file' = file /\ clock' = clock /\ ~lastSave'.called]_vars

\* get_forecast_5d3h has returned three forecast points
C18_Witness ==
    /\ pc = "done" /\ call.fn = "get_forecast_5d3h"
    /\ result.kind = "returned"
    /\ Len(result.data) = 3
    /\ ~lastSave.called

\* C19: on a 200 answer get_forecast_5d3h returns a sequence of the length
\* and in the order of the "list" of the answer, each element carrying the
\* city of the envelope; without "list" it returns the empty sequence.
C19_ForecastInOrder ==
    [][Finished("get_forecast_5d3h") /\ Answered200 =>
        LET data == fres.data
            list == IF data.hasList THEN data.list ELSE <<>>
        IN  /\ result'.kind = "returned"
            /\ Len(result'.data) = Len(list)
            /\ \A i \in 1..Len(list) :
                    /\ result'.data[i].item = list[i]
                    /\ result'.data[i].city_info = data.city
            /\ ~data.hasList => result'.data = <<>>]_vars

\* get_forecast_5d3h has returned two points in the order of the answer,
\* which is not the order of their timestamps
C19_Witness ==
    /\ pc = "done" /\ call.fn = "get_forecast_5d3h"
    /\ result = Returned(<<item_with_city(6, "Moscow"), item_with_city(3, "Moscow")>>)

\* C20: on a 200 answer get_air_pollution returns the components of the
\* first timestep, whatever follows it; without a timestep ("list" missing
\* or empty) it fails with the ValueError "no data", not a RequestException.
C20_FirstTimestepOrNotFound ==
    [][Finished("get_air_pollution") /\ Answered200 =>
        LET data == fres.data
        IN  IF data.hasList /\ Len(data.list) > 0
            THEN result' = Returned(data.list[1])
            ELSE result' = ValueError("no_air_data")]_vars

\* get_air_pollution has returned the components of a timestep
C20_Witness ==
    /\ pc = "done" /\ call.fn = "get_air_pollution"
    /\ result = Returned(<<<<"so2", 15>>, <<"pm10", 120>>>>)

---------------------------------------------------------------------------
(* Air quality *)

Analyzed == pc = "done" /\ call.fn = "analyze_air_pollution"
AnalyzedExtended == Analyzed /\ call.extended
\* the lower bounds of the tiers 2..5 of a pollutant
Thresholds(key) == {AQI_LEVELS(key)[i][1] : i \in 2..5}
\* the tier of a non-negative concentration: one more than the number of
\* thresholds it has reached
TierOf(key, value) == 1 + Cardinality({t \in Thresholds(key) : t <= value})
TierLabel(tier) == <<Good, Fair, Moderate, Poor, VeryPoor>>[tier]
\* the positions of the pollutants that get a tier: known key, a value that
\* is not null and not below every bracket
Classified(components) ==
    {i \in 1..Len(components) :
        /\ components[i][1] \in KnownComponents
        /\ components[i][2] # NoneNum
        /\ components[i][2] >= 0}
TierAt(components, i) == TierOf(components[i][1], components[i][2])
MaxTier(components) ==
    LET tiers == {TierAt(components, i) : i \in Classified(components)} \cup {1}
    IN  CHOOSE t \in tiers : \A u \in tiers : u <= t

\* C21: the overall tier is the maximum tier over the classified pollutants
\* with the label of that tier, tier 1 "Good" when no pollutant is
\* classified, and always in 1..5.
C21_OverallIsMaxTier ==
    Analyzed =>
        /\ result.data.overall_index = MaxTier(call.components)
        /\ result.data.overall_status = TierLabel(result.data.overall_index)
        /\ result.data.overall_index \in 1..5
        /\ Classified(call.components) = {} =>
                result.data.overall_index = 1 /\ result.data.overall_status = Good

\* three pollutants, the worst of them in the middle
C21_Witness ==
    /\ Analyzed
    /\ call.components = <<<<"so2", 60>>, <<"pm2_5", 120>>, <<"pm10", 60>>>>
    /\ result.data.overall_index = 5
    /\ result.data.overall_status = VeryPoor

\* C22: for a known pollutant and a non-negative concentration exactly one
\* bracket [min, max) holds the value, the last one being open, and the
\* classification records the tier of that bracket, so that a value equal to
\* a threshold gets the higher tier; an unknown key and a null value get no
\* classification entry.
C22_OneBracketPerValue ==
    AnalyzedExtended =>
        LET components == call.components
            levels == result.data.component_levels
            keys == [i \in 1..Len(levels) |-> levels[i][1]]
        IN  /\ \A i \in Classified(components) :
                LET key == components[i][1]
                    value == components[i][2]
                    holding == {b \in 1..5 :
                                  /\ AQI_LEVELS(key)[b][1] <= value
                                  /\ b < 5 => value < AQI_LEVELS(key)[b][2]}
                IN  /\ Cardinality(holding) = 1
                    /\ \E j \in 1..Len(levels) :
                          /\ levels[j][1] = key
                          /\ levels[j][2].value = value
                          /\ levels[j][2].index \in holding
                          /\ levels[j][2].index = TierOf(key, value)
                          /\ levels[j][2].status = TierLabel(TierOf(key, value))
            /\ \A i \in 1..Len(components) :
                  components[i][1] \notin KnownComponents \/ components[i][2] = NoneNum
                      => \A j \in 1..Len(levels) : levels[j][1] # components[i][1]
            /\ Len(levels) = Cardinality(Classified(components))

\* a concentration of SO2 equal to the bound between the tiers 2 and 3
C22_Witness ==
    /\ AnalyzedExtended
    /\ call.components = <<<<"so2", 80>>>>
    /\ result.data.component_levels[1][2].index = 3

\* the position in the input of the pollutant with this display name
InputPosition(components, name) ==
    CHOOSE i \in 1..Len(components) :
        components[i][1] \in KnownComponents /\ COMPONENT_NAMES(components[i][1]) = name

\* C23: in extended mode exceeded_norms holds exactly the classified
\* pollutants of tier 2 or more, each once, by descending tier, those of one
\* tier in the order of the input; for {so2: 15, pm10: 120} it is [pm10] and
\* the overall tier is 4.
C23_ExceededSortedStable ==
    AnalyzedExtended =>
        LET components == call.components
            exceeded == result.data.exceeded_norms
            expected == {i \in Classified(components) : TierAt(components, i) >= 2}
        IN  /\ Len(exceeded) = Cardinality(expected)
            /\ \A i \in expected :
                  \E j \in 1..Len(exceeded) :
                      /\ exceeded[j].name = COMPONENT_NAMES(components[i][1])
                      /\ exceeded[j].value = components[i][2]
                      /\ exceeded[j].index = TierAt(components, i)
            /\ \A j \in 1..Len(exceeded) : exceeded[j].index >= 2
            /\ \A j, k \in 1..Len(exceeded) :
                  j < k =>
                      /\ exceeded[j].index >= exceeded[k].index
                      /\ exceeded[j].index = exceeded[k].index =>
                            InputPosition(components, exceeded[j].name)
                                < InputPosition(components, exceeded[k].name)
            /\ components = <<<<"so2", 15>>, <<"pm10", 120>>>> =>
                  /\ Len(exceeded) = 1 /\ exceeded[1].name = "PM10"
                  /\ result.data.overall_index = 4

\* two pollutants of tier 2 in the order of the input behind one of tier 3
\* that the input lists last
C23_Witness ==
    /\ AnalyzedExtended
    /\ call.components = <<<<"so2", 60>>, <<"pm2_5", 15>>, <<"pm10", 60>>>>
    /\ Len(result.data.exceeded_norms) = 3
    /\ result.data.exceeded_norms[1].name = "PM10"
    /\ result.data.exceeded_norms[2].name = "SO2"
    /\ result.data.exceeded_norms[3].name = "PM2.5"

\* C30: in an extended result exceeded_norms is non-empty exactly when the
\* overall tier is 2 or more, and then its first element has the overall
\* tier, so the exceeded pollutant display_extended_weather prints is one of
\* the overall tier.
C30_FirstExceededIsWorst ==
    AnalyzedExtended =>
        LET exceeded == result.data.exceeded_norms
            overall == result.data.overall_index
            shown == first_exceeded(result.data)
        IN  /\ exceeded # <<>> <=> overall >= 2
            /\ exceeded # <<>> =>
                  /\ exceeded[1].index = overall
                  /\ exceeded[1].status = result.data.overall_status
                  /\ shown = exceeded[1].name
                  /\ TierAt(call.components, InputPosition(call.components, shown)) = overall
            /\ exceeded = <<>> => shown = None

\* the display shows PM2.5, the one pollutant of the overall tier 4
C30_Witness ==
    /\ AnalyzedExtended
    /\ call.components = <<<<"pm10", 60>>, <<"nh3", 120>>, <<"pm2_5", 60>>>>
    /\ result.data.overall_index = 4
    /\ first_exceeded(result.data) = "PM2.5"

---------------------------------------------------------------------------
(* The cache and the current-weather functions *)

WeatherFunctions == {"get_weather_by_coordinates", "get_weather_by_city"}

\* C26: a call of get_weather_by_city or get_weather_by_coordinates that
\* does not succeed (validation, a status other than 200, exhausted retries)
\* leaves the cache file as it was, and the file changes only in the step
\* that follows a 200 answer.
C26_FailedFetchLeavesCache ==
    [][call'.fn \in WeatherFunctions =>
        /\ pc' = "done" /\ result'.kind = "raised" => file' = file
        /\ file' # file => pc = "fetched" /\ Answered200]_vars

\* get_weather_by_city has failed after three requests and the nine entries
\* of the cache are still there
C26_Witness ==
    /\ pc = "done" /\ call.fn = "get_weather_by_city"
    /\ result = Raised("RequestException")
    /\ requests = max_retries
    /\ file = Dump(OldList(MAX_CACHE_SIZE - 1))
    /\ ~lastSave.called

\* the file cannot be parsed or has none of the shapes the loader knows
Unreadable(f) == f.kind \in {"unparseable", "scalar"} \/ f = OtherObjectFile

---------------------------------------------------------------------------
(* Sequences of current-weather fetches *)

\* the fetches that returned after the i-th one
Later(i) == (i + 1)..Len(history)
\* the fetch was a get_weather_by_city
ByCity(h) == h.entry.city # None
\* from the i-th fetch on, every call left a file that can be parsed
Uncorrupted(i) == \A j \in i..Len(history) : history[j].readable
\* no later get_weather_by_city asked for the city of the i-th fetch, in
\* any case of the letters
NotFetchedAgain(i) ==
    \A j \in Later(i) :
        ~(ByCity(history[j]) /\ SameIgnoringCase(history[j].entry.city, history[i].entry.city))
\* the lookup by the city of the i-th fetch returns the record it fetched
StillFound(i) ==
    find_in_cache_by_city(file, history[i].entry.city)
        = Returned(history[i].entry.weather_data)

\* C27 as stated: after a get_weather_by_city(c) that returned r, as long as
\* fewer than MAX_CACHE_SIZE later current-weather fetches have returned,
\* none of them a get_weather_by_city for c in any case of the letters, and
\* the file was not corrupted, the lookup by c returns r.
C27_FetchedStaysFound ==
    \A i \in 1..Len(history) :
        /\ ByCity(history[i])
        /\ Cardinality(Later(i)) < MAX_CACHE_SIZE
        /\ NotFetchedAgain(i)
        /\ Uncorrupted(i)
        => StillFound(i)

\* C27: after a get_weather_by_city(c) that returned r and whose write of
\* the cache succeeded, as long as fewer than MAX_CACHE_SIZE later
\* current-weather fetches have returned, none of them a
\* get_weather_by_city for c in any case of the letters, and no later write
\* broke off, the lookup by c returns r.
C27_WrittenStaysFound ==
    \A i \in 1..Len(history) :
        /\ ByCity(history[i])
        /\ history[i].written
        /\ Cardinality(Later(i)) < MAX_CACHE_SIZE
        /\ NotFetchedAgain(i)
        /\ Uncorrupted(i)
        => StillFound(i)

\* get_weather_by_city("Moscow") wrote its record, nine fetches by
\* coordinates followed, and the record is the last entry of a full cache
C27_Witness ==
    /\ pc = "done"
    /\ \E i \in 1..Len(history) :
        /\ history[i].entry.city = "Moscow"
        /\ history[i].written
        /\ Cardinality(Later(i)) = MAX_CACHE_SIZE - 1
        /\ NotFetchedAgain(i)
        /\ Uncorrupted(i)
        /\ Len(Stored(file)) = MAX_CACHE_SIZE
        /\ Stored(file)[MAX_CACHE_SIZE] = history[i].entry

\* C28: right after a get_weather_by_coordinates(lat, lon) that returned r
\* and whose write of the cache succeeded, the lookup at (lat, lon) returns
\* r, whatever older entries lie within the tolerance: the entry is stored
\* under the coordinates asked for.
C28_FetchedAtCoordinatesIsFound ==
    /\ pc = "done" /\ call.fn = "get_weather_by_coordinates"
    /\ result.kind = "returned" /\ lastSave.written
    => /\ Stored(file)[1].lat = call.lat /\ Stored(file)[1].lon = call.lon
       /\ find_in_cache_by_coordinates(file, call.lat, call.lon, tolerance) = result

\* get_weather_by_coordinates at 55.765 has written its record in front of
\* the one fetched at 55.755, which lies within the tolerance, and the
\* answer's own coordinates (55.750) do not
C28_Witness ==
    /\ pc = "done" /\ call.fn = "get_weather_by_coordinates"
    /\ result.kind = "returned" /\ lastSave.written
    /\ call.lat = 55765
    /\ result.data.clat = 55750
    /\ Len(Stored(file)) > 1
    /\ Stored(file)[2].lat = 55755
    /\ CoordinatesMatch(Stored(file)[2], call.lat, call.lon, tolerance)
    /\ Stored(file)[2].weather_data # result.data

---------------------------------------------------------------------------
(* Two writers of the cache *)

\* the thread whose write made this step
WriterOfStep(t) == writers[t].at = "loaded" /\ writers'[t].at = "done"
\* both threads have written the file
BothWrote == \A t \in Threads : writers[t].at = "done"
\* the entry of thread t is in the file
Kept(t) == \E i \in 1..Len(Stored(file)) : Stored(file)[i] = writers[t].entry

\* C24: two calls of _save_cache_entry that run in two threads race, and
\* the last write wins: every write replaces the file by the list its
\* writer prepared from the file it had loaded, whatever the other thread
\* wrote in between, and the file it leaves holds at most MAX_CACHE_SIZE
\* entries, the writer's own first.
C24_LastWriteWins ==
    [][file' # file /\ file' # UnparseableFile =>
        \E t \in Threads :
            /\ WriterOfStep(t)
            /\ file' = Dump(writers[t].cache_list)
            /\ Len(Stored(file')) <= MAX_CACHE_SIZE
            /\ Stored(file')[1] = writers[t].entry]_vars

\* both threads loaded the nine entries of the file before either wrote:
\* both writes succeeded, and the file holds ten entries, with the entry
\* of the second thread and without the entry of the first
C24_Witness ==
    /\ BothWrote
    /\ Len(Stored(file)) = MAX_CACHE_SIZE
    /\ Kept(2) /\ ~Kept(1)
    /\ writers[1].entry # writers[2].entry

---------------------------------------------------------------------------
(* The fallback to the cache in the weather menu *)

\* the lookups the menu functions call
CachedLookups == {"get_cached_weather_by_city", "get_cached_weather_by_coordinates"}
\* this step looks the cache up
LooksUp == call' # call /\ call'.fn \in CachedLookups
\* the lookup of this step asks for what the call that just ended asked for
SameArguments ==
    \/ /\ call.fn = "get_weather_by_city"
       /\ call'.fn = "get_cached_weather_by_city"
       /\ call'.city = call.city
    \/ /\ call.fn = "get_weather_by_coordinates"
       /\ call'.fn = "get_cached_weather_by_coordinates"
       /\ call'.lat = call.lat /\ call'.lon = call.lon

\* C25: in get_weather_by_city_name and get_weather_by_coords the cache is
\* looked up only in the step that follows a fetch that raised
\* requests.RequestException, after the user answered y to the offer, and
\* with the city or the coordinates of that fetch; after a fetch that raised
\* ValueError (validation, city not found, another status) the function
\* prints the error and is back at the menu without a lookup.
C25_CacheOnlyAfterNetworkError ==
    [][/\ LooksUp =>
            /\ cli.at = "asked"
            /\ cli'.use_cache = "y"
            /\ result = Raised("RequestException")
            /\ SameArguments
       /\ cli.at = "calling" /\ pc = "done" /\ FailedWith(result, "ValueError") =>
            /\ cli'.at = "menu"
            /\ ~LooksUp]_vars

\* get_weather_by_city("moscow") failed after three requests, the user
\* answered y, and the record the cache held for Moscow was displayed
C25_Witness ==
    /\ call = Call("get_cached_weather_by_city", "moscow", NoneNum, NoneNum)
    /\ cli.use_cache = "y"
    /\ cli.shown = "cached_weather"
    /\ requests = max_retries
    /\ result.kind = "returned" /\ result.data.rec = 1

====
